---- MODULE Spec2Model ----
(***************************************************************************)
(* Model of n_body_problem_distributed.py: an SPMD N-body simulation in    *)
(* which `size` MPI processes (ranks 0..size-1, rank 0 the coordinator)    *)
(* run main() and call calculate_accelerations().                          *)
(*                                                                         *)
(* Arithmetic.  The program computes in IEEE doubles.  Positions, masses,  *)
(* velocities and accelerations are whole numbers in the model, and every  *)
(* operation on them is the code's operation where its result is a whole   *)
(* number again (there the double result is exact): a division that leaves *)
(* a remainder or a root of a non-square has no value in the model, and    *)
(* the model checker stops if a run ever evaluates one.  The initial       *)
(* systems (PosVals, VelVals, MassVals, G) are chosen so that no run does. *)
(* The time variables t, dt and t_end are doubles with their 53-bit        *)
(* significand, and t += dt rounds as the double addition does.            *)
(*                                                                         *)
(* MPI.  bcast/Bcast/Reduce are modelled by their MPI semantics: a root    *)
(* of a broadcast and a non-root of a reduction hand their buffer to the   *)
(* library and may return before the other ranks have called; a receiver   *)
(* blocks until its data is there; Barrier returns only after every rank   *)
(* has entered it.                                                         *)
(***************************************************************************)
EXTENDS Integers, Sequences, FiniteSets, TLC

\* ---------------------------------------------------------------- bounds
MaxN == 3
MaxP == 3
MaxK == 1
\* timesteps a rank is followed for when the loop has no end (dt <= 0)
MaxSteps == 2

\* ------------------------------------------------------------- constants
\* G, in units in which the accelerations of the initial systems are whole
G == 18432000
\* dt of the runs with bodies in motion, in units in which 0.5 * dt = 1
DT == 2

\* bodies on the line through (0, 0) and (3, 4), moving along it
PosVals == {<<0, 0>>, <<288, 384>>}
VelVals == {<<0, 0>>, <<24, 32>>}
MassVals == {1, 2}

VARIABLES
    N,                    \* number of bodies (main: N)
    size,                 \* comm.Get_size()
    t_end,                \* end time (main: t_end)
    dt,                   \* time step (main: dt)
    pc,                   \* pc[r]: position of rank r in main()
    t,                    \* t[r]: rank r's local variable t
    positions,            \* positions[r]: rank r's replica
    masses,               \* masses[r]
    velocities,           \* velocities[r]
    local_accelerations,  \* local_accelerations[r]
    all_accelerations,    \* the coordinator's reduction buffer
    bcastq,               \* bcastq[r]: start-up broadcast payloads in flight to r
    reduceq,              \* reduceq[r]: Reduce contributions of r in flight to rank 0
    calls,                \* calls[r]: the collectives rank r has invoked, in order
    contributors,         \* ranks whose buffers the coordinator's last Reduce summed
    x0,                   \* coordinator's positions when its current timestep began
    v0                    \* coordinator's velocities when its current timestep began

vars == <<N, size, t_end, dt, pc, t, positions, masses, velocities,
          local_accelerations, all_accelerations, bcastq, reduceq, calls,
          contributors, x0, v0>>

Ranks == 0 .. (size - 1)

\* Python's None: no array (an array of n rows is a function on 0 .. n-1)
None == [i \in {-1} |-> 0]
Zero2 == <<0, 0>>

\* ------------------------------------------------------------ arithmetic
\* the value v of an operation whose result is exact, no value otherwise
Exact(ok, v) == IF ok THEN v ELSE CHOOSE e \in {} : TRUE

\* a / b for b > 0
Div(a, b) == Exact((a \div b) * b = a, a \div b)

RECURSIVE SqrtIter(_, _)
SqrtIter(n, r) == IF r <= n \div r THEN r ELSE SqrtIter(n, (r + n \div r) \div 2)

\* np.sqrt
sqrt(n) ==
    LET r == IF n = 0 THEN 0 ELSE SqrtIter(n, n)
    IN  Exact(r * r = n, r)

Add2(a, b) == <<a[1] + b[1], a[2] + b[2]>>
Scale2(k, a) == <<k * a[1], k * a[2]>>

\* number of bodies of an array
Shape0(arr) == Cardinality(DOMAIN arr)

\* ------------------------------------------------------- Python floats
\* A float x is <<s, h, m, l>>: x = s * (h * Base^2 + m * Base + l) * 2^-58,
\* s the sign and h, m, l the digits of the magnitude in base 2^20.  The
\* floats of magnitude 2^-6 and more that the time loop meets are such
\* multiples of 2^-58.
Base == 1048576
\* the digit h of 1.0
One == 262144

\* the float of a whole number k
Float(k) == <<IF k < 0 THEN -1 ELSE 1, (IF k < 0 THEN -k ELSE k) * One, 0, 0>>

\* the whole number a float is
IntOf(x) == Exact(x[3] = 0 /\ x[4] = 0 /\ x[2] % One = 0, x[1] * (x[2] \div One))

Mag(x) == <<x[2], x[3], x[4]>>
MkFloat(s, a) == IF a = <<0, 0, 0>> THEN <<1, 0, 0, 0>> ELSE <<s, a[1], a[2], a[3]>>

MagAdd(a, b) ==
    LET l == a[3] + b[3]
        m == a[2] + b[2] + l \div Base
    IN  <<a[1] + b[1] + m \div Base, m % Base, l % Base>>

\* a - b for a >= b
MagSub(a, b) ==
    LET l == a[3] - b[3]
        bl == IF l < 0 THEN 1 ELSE 0
        m == a[2] - b[2] - bl
        bm == IF m < 0 THEN 1 ELSE 0
    IN  <<a[1] - b[1] - bm, m + bm * Base, l + bl * Base>>

MagLess(a, b) ==
    \/ a[1] < b[1]
    \/ a[1] = b[1] /\ a[2] < b[2]
    \/ a[1] = b[1] /\ a[2] = b[2] /\ a[3] < b[3]

RECURSIVE Bits(_)
Bits(n) == IF n = 0 THEN 0 ELSE 1 + Bits(n \div 2)

\* the number of significant bits of a magnitude
BitLen(a) ==
    IF a[1] > 0 THEN 40 + Bits(a[1])
    ELSE IF a[2] > 0 THEN 20 + Bits(a[2]) ELSE Bits(a[3])

RECURSIVE Pow2(_)
Pow2(n) == IF n = 0 THEN 1 ELSE 2 * Pow2(n - 1)

\* a magnitude rounded to 53 significant bits, to nearest, ties to even
Round53(a) ==
    LET s == BitLen(a) - 53
    IN  IF s <= 0 THEN a
        ELSE LET q == Pow2(s)
                 rem == a[3] % q
                 kept == <<a[1], a[2], a[3] - rem>>
                 up == 2 * rem > q \/ (2 * rem = q /\ (a[3] \div q) % 2 = 1)
             IN  IF up THEN MagAdd(kept, <<0, 0, q>>) ELSE kept

\* x + y
FloatAdd(x, y) ==
    IF x[1] = y[1] THEN MkFloat(x[1], Round53(MagAdd(Mag(x), Mag(y))))
    ELSE IF MagLess(Mag(x), Mag(y))
         THEN MkFloat(y[1], Round53(MagSub(Mag(y), Mag(x))))
         ELSE MkFloat(x[1], Round53(MagSub(Mag(x), Mag(y))))

\* x < y
FloatLess(x, y) ==
    IF x[1] # y[1] THEN x[1] < y[1]
    ELSE IF x[1] = 1 THEN MagLess(Mag(x), Mag(y)) ELSE MagLess(Mag(y), Mag(x))

\* x <= y
FloatLeq(x, y) == ~FloatLess(y, x)

\* c * k for a float c and a whole number k
Times(c, k) == IF k = 0 THEN 0 ELSE IntOf(c) * k

\* 0.5 * c * k
HalfTimes(c, k) == IF k = 0 THEN 0 ELSE Div(IntOf(c) * k, 2)

\* ------------------------------------------------ calculate_accelerations
\* a slice length that rounds down: the last, partial stripe is lost
SliceLenFloor(n, rank, sz) == IF rank >= n THEN 0 ELSE (n - rank) \div sz

\* len(range(rank, n, sz)): the number of rows of positions[rank::size, :]
SliceLen(n, rank, sz) == IF rank >= n THEN 0 ELSE (n - rank + sz - 1) \div sz

\* the global index of row i of positions[rank::size, :]
SliceIndex(rank, sz, i) == rank + i * sz

\* positions[rank::size, :]
LocalPositions(pos, rank, sz) ==
    [i \in 0 .. (SliceLen(Shape0(pos), rank, sz) - 1) |->
        pos[SliceIndex(rank, sz, i)]]

\* lines 31-37: what body j adds to the accumulator of the body at p
Contribution(p, pj, mass) ==
    LET dx == pj[1] - p[1]
        dy == pj[2] - p[2]
        distance == sqrt(dx * dx + dy * dy)
    IN  IF distance > 0
        THEN LET force == Div(G * mass, distance * distance)
             IN  <<Div(force * dx, distance), Div(force * dy, distance)>>
        ELSE Zero2

\* lines 30-37: what the pass for body j adds to local row i
Term(pos, mas, lp, i, j) ==
    IF i # j THEN Contribution(lp[i], pos[j], mas[j]) ELSE Zero2

\* lines 29-37 for one local row i: the loop over j = 0 .. k-1
RECURSIVE InnerLoop(_, _, _, _, _)
InnerLoop(pos, mas, lp, i, k) ==
    IF k = 0 THEN Zero2
    ELSE LET j == k - 1
         IN  Add2(InnerLoop(pos, mas, lp, i, j), Term(pos, mas, lp, i, j))

\* lines 25-37
LocalAccelerations(pos, mas, rank, sz) ==
    LET lp == LocalPositions(pos, rank, sz)
    IN  [i \in DOMAIN lp |-> InnerLoop(pos, mas, lp, i, Shape0(mas))]

\* a write-back that forgets the rank offset
WriteBackIndexNoOffset(rank, sz, i) == i * sz

\* the rows written by line 41
WriteBackIndex(rank, sz, i) == rank + i * sz

\* a kernel that returns its local rows instead of the size-N array
calculate_accelerations_local(pos, mas, rank, sz) ==
    LocalAccelerations(pos, mas, rank, sz)

calculate_accelerations(pos, mas, rank, sz) ==
    LET la == LocalAccelerations(pos, mas, rank, sz)
    IN  [g \in DOMAIN pos |->
            IF \E i \in DOMAIN la : WriteBackIndex(rank, sz, i) = g
            THEN la[CHOOSE i \in DOMAIN la : WriteBackIndex(rank, sz, i) = g]
            ELSE Zero2]

\* element-wise sum of two acceleration arrays (MPI.SUM)
SumArr(a, b) == [g \in DOMAIN a |-> Add2(a[g], b[g])]

\* ------------------------------------------------------------ collectives
\* the number of calls of collective c in the call history h
Count(h, c) == Cardinality({k \in 1 .. Len(h) : h[k] = c})

\* the number of Reduce, Barrier and Bcast calls rank r has made
NReduce(r) == Count(calls[r], "Reduce")
NBarrier(r) == Count(calls[r], "Barrier")
NBcast(r) == Count(calls[r], "Bcast")

Invoke(r, c) == calls' = [calls EXCEPT ![r] = Append(@, c)]

\* a Reduce whose root does not wait for any other rank
ReduceReadyNoWait(q) == TRUE

\* a Reduce whose root waits for rank 1 only
ReduceReadyFirstOnly(q) == size > 1 => q[1] # <<>>

\* comm.Reduce at the root returns once every other rank's buffer has arrived
ReduceReady(q) == \A r \in Ranks \ {0} : q[r] # <<>>

\* the ranks whose buffers are at the root
Arrived(q) == {0} \cup {r \in Ranks \ {0} : q[r] # <<>>}

\* MPI.SUM over the root's own buffer and the arrived buffers of ranks 1..k
RECURSIVE ReduceSum(_, _, _)
ReduceSum(own, q, k) ==
    IF k = 0 THEN own
    ELSE IF q[k] # <<>> THEN SumArr(ReduceSum(own, q, k - 1), Head(q[k]))
         ELSE ReduceSum(own, q, k - 1)

\* a Barrier that lets a rank through as soon as it has entered
BarrierOpenNoWait(h, r) == TRUE

\* comm.Barrier returns at r once every rank has entered the barrier r is in
BarrierOpen(h, r) ==
    \A u \in Ranks : Count(h[u], "Barrier") >= Count(h[r], "Barrier")

\* ------------------------------------------------------------------ main
\* dt = 1.0 / 60 (line 56), the double 0x3F91111111111111
ProgramDT == <<1, 4369, 69905, 69905>>
\* t_end = 1 (line 55)
ProgramTEnd == Float(1)

\* lines 52-74 for a configuration <<N, dt, t_end>> of the set configs, a
\* number of ranks of the set sizes and initial velocities built from vels:
\* the parameters, and the initial conditions at rank 0.  With a negative N
\* line 65, np.random.randn(N, 2), raises ValueError at rank 0, which ends
\* there.
Start(configs, sizes, vels) ==
    /\ \E c \in configs : N = c[1] /\ dt = c[2] /\ t_end = c[3]
    /\ size \in sizes
    /\ pc = [r \in Ranks |-> IF r = 0 /\ N < 0 THEN "raised" ELSE "bcast_positions"]
    /\ t = [r \in Ranks |-> Float(0)]
    /\ \E x \in [0 .. (N - 1) -> PosVals] :
           positions = [r \in Ranks |-> IF r = 0 THEN x ELSE None]
    /\ \E m \in MassVals :
           masses = [r \in Ranks |->
                        IF r = 0
                        THEN [i \in 0 .. (N - 1) |-> IF i % 2 = 0 THEN 1 ELSE m]
                        ELSE None]
    /\ \E v \in vels :
           velocities = [r \in Ranks |->
                            IF r = 0
                            THEN [i \in 0 .. (N - 1) |->
                                     IF i % 2 = 0 THEN v ELSE Scale2(-1, v)]
                            ELSE None]
    /\ local_accelerations = [r \in Ranks |-> None]
    /\ all_accelerations = None
    /\ bcastq = [r \in Ranks |-> <<>>]
    /\ reduceq = [r \in Ranks |-> <<>>]
    /\ calls = [r \in Ranks |-> <<>>]
    /\ contributors = {}
    /\ x0 = None
    /\ v0 = None

\* N >= 0 bodies, dt = DT and t_end = k * dt: one timestep (k = 0) for any
\* system, and more timesteps for the systems of at most one body, in which
\* every later distance is a whole number too
Configs ==
    {c \in (0 .. MaxN) \X {Float(DT)} \X {Float(k * DT) : k \in 0 .. MaxK} :
        c[1] > 1 => c[3] = Float(0)}

Init == Start(Configs, 1 .. MaxP, VelVals)

\* the configurations with a negative N or with dt <= 0; the bodies of a
\* system of more than one body move (dt < 0) only in the systems above
InvalidConfigs ==
    {c \in (-1 .. MaxN) \X {Float(-DT), Float(0), Float(DT)} \X {Float(0), Float(DT)} :
        /\ c[1] < 0 \/ FloatLeq(c[2], Float(0))
        /\ c[1] > 1 => c[2] = Float(0)}

InitInvalid == Start(InvalidConfigs, 1 .. MaxP, VelVals)

\* the program's own time parameters, dt = 1.0 / 60 and t_end = 1, for
\* systems at rest
ProgramConfigs == {<<n, ProgramDT, ProgramTEnd>> : n \in 0 .. 1}

InitProgram == Start(ProgramConfigs, 1 .. 2, {Zero2})

\* a start-up broadcast that delivers an empty payload
SendAllEmpty(q, payload) == [r \in Ranks |-> IF r = 0 THEN q[r] ELSE Append(q[r], <<>>)]

\* the payload every non-root rank is sent by a start-up broadcast of the root
SendAll(q, payload) == [r \in Ranks |-> IF r = 0 THEN q[r] ELSE Append(q[r], payload)]

\* line 77, positions = comm.bcast(positions, root=0), is called: the root hands its
\* array over and returns, any other rank waits in the call
BcastPositionsInit(r) ==
    /\ pc[r] = "bcast_positions"
    /\ Invoke(r, "bcast")
    /\ IF r = 0
       THEN /\ bcastq' = SendAll(bcastq, positions[0])
            /\ pc' = [pc EXCEPT ![r] = "bcast_masses"]
       ELSE /\ pc' = [pc EXCEPT ![r] = "bcast_positions_wait"]
            /\ UNCHANGED bcastq
    /\ UNCHANGED <<N, size, t_end, dt, t, positions, masses, velocities,
                   local_accelerations, all_accelerations, reduceq, contributors,
                   x0, v0>>

\* line 77 returns at a rank other than the root with the root's array
BcastPositionsReturn(r) ==
    /\ pc[r] = "bcast_positions_wait"
    /\ bcastq[r] # <<>>
    /\ positions' = [positions EXCEPT ![r] = Head(bcastq[r])]
    /\ bcastq' = [bcastq EXCEPT ![r] = Tail(@)]
    /\ pc' = [pc EXCEPT ![r] = "bcast_masses"]
    /\ UNCHANGED <<N, size, t_end, dt, t, masses, velocities,
                   local_accelerations, all_accelerations, reduceq, calls,
                   contributors, x0, v0>>

\* line 78, masses = comm.bcast(masses, root=0), is called: the root hands its
\* array over and returns, any other rank waits in the call
BcastMassesInit(r) ==
    /\ pc[r] = "bcast_masses"
    /\ Invoke(r, "bcast")
    /\ IF r = 0
       THEN /\ bcastq' = SendAll(bcastq, masses[0])
            /\ pc' = [pc EXCEPT ![r] = "bcast_velocities"]
       ELSE /\ pc' = [pc EXCEPT ![r] = "bcast_masses_wait"]
            /\ UNCHANGED bcastq
    /\ UNCHANGED <<N, size, t_end, dt, t, positions, masses, velocities,
                   local_accelerations, all_accelerations, reduceq, contributors,
                   x0, v0>>

\* line 78 returns at a rank other than the root with the root's array
BcastMassesReturn(r) ==
    /\ pc[r] = "bcast_masses_wait"
    /\ bcastq[r] # <<>>
    /\ masses' = [masses EXCEPT ![r] = Head(bcastq[r])]
    /\ bcastq' = [bcastq EXCEPT ![r] = Tail(@)]
    /\ pc' = [pc EXCEPT ![r] = "bcast_velocities"]
    /\ UNCHANGED <<N, size, t_end, dt, t, positions, velocities,
                   local_accelerations, all_accelerations, reduceq, calls,
                   contributors, x0, v0>>

\* line 79, velocities = comm.bcast(velocities, root=0), is called: the root hands its
\* array over and returns, any other rank waits in the call
BcastVelocitiesInit(r) ==
    /\ pc[r] = "bcast_velocities"
    /\ Invoke(r, "bcast")
    /\ IF r = 0
       THEN /\ bcastq' = SendAll(bcastq, velocities[0])
            /\ pc' = [pc EXCEPT ![r] = "loop"]
       ELSE /\ pc' = [pc EXCEPT ![r] = "bcast_velocities_wait"]
            /\ UNCHANGED bcastq
    /\ UNCHANGED <<N, size, t_end, dt, t, positions, masses, velocities,
                   local_accelerations, all_accelerations, reduceq, contributors,
                   x0, v0>>

\* line 79 returns at a rank other than the root with the root's array
BcastVelocitiesReturn(r) ==
    /\ pc[r] = "bcast_velocities_wait"
    /\ bcastq[r] # <<>>
    /\ velocities' = [velocities EXCEPT ![r] = Head(bcastq[r])]
    /\ bcastq' = [bcastq EXCEPT ![r] = Tail(@)]
    /\ pc' = [pc EXCEPT ![r] = "loop"]
    /\ UNCHANGED <<N, size, t_end, dt, t, positions, masses,
                   local_accelerations, all_accelerations, reduceq, calls,
                   contributors, x0, v0>>

\* line 82, while t <= t_end
LoopTest(tr, te) == FloatLeq(tr, te)

\* lines 82-86: the loop test and the first force evaluation; a rank whose
\* test fails leaves the loop and main() returns
EvaluateAccel1(r) ==
    /\ pc[r] = "loop"
    /\ IF LoopTest(t[r], t_end)
       THEN /\ local_accelerations' = [local_accelerations EXCEPT ![r] =
                   calculate_accelerations(positions[r], masses[r], r, size)]
            /\ pc' = [pc EXCEPT ![r] = "reduce1"]
            /\ x0' = IF r = 0 THEN positions[0] ELSE x0
            /\ v0' = IF r = 0 THEN velocities[0] ELSE v0
       ELSE /\ pc' = [pc EXCEPT ![r] = "done"]
            /\ UNCHANGED <<local_accelerations, x0, v0>>
    /\ UNCHANGED <<N, size, t_end, dt, t, positions, masses, velocities,
                   all_accelerations, bcastq, reduceq, calls, contributors>>

\* lines 94 and 115 at a rank other than the root: the buffer is handed over
ReduceSend(r) ==
    /\ r # 0
    /\ pc[r] \in {"reduce1", "reduce2"}
    /\ reduceq' = [reduceq EXCEPT ![r] = Append(@, local_accelerations[r])]
    /\ Invoke(r, "Reduce")
    /\ pc' = [pc EXCEPT ![r] = IF pc[r] = "reduce1" THEN "barrier" ELSE "loop"]
    /\ UNCHANGED <<N, size, t_end, dt, t, positions, masses, velocities,
                   local_accelerations, all_accelerations, bcastq, contributors,
                   x0, v0>>

\* np.zeros_like(arr)
ZerosLike(arr) == [g \in DOMAIN arr |-> Zero2]

\* lines 89-94 and 112-115 at the root: the receive buffer is allocated and
\* comm.Reduce is called
ReduceCall ==
    /\ pc[0] \in {"reduce1", "reduce2"}
    /\ all_accelerations' = ZerosLike(local_accelerations[0])
    /\ Invoke(0, "Reduce")
    /\ pc' = [pc EXCEPT ![0] = IF pc[0] = "reduce1" THEN "reduce1_wait" ELSE "reduce2_wait"]
    /\ UNCHANGED <<N, size, t_end, dt, t, positions, masses, velocities,
                   local_accelerations, bcastq, reduceq, contributors, x0, v0>>

\* lines 94 and 115 at the root: comm.Reduce returns with the sum
ReduceRoot ==
    /\ pc[0] \in {"reduce1_wait", "reduce2_wait"}
    /\ ReduceReady(reduceq)
    /\ all_accelerations' = ReduceSum(local_accelerations[0], reduceq, size - 1)
    /\ contributors' = Arrived(reduceq)
    /\ reduceq' = [r \in Ranks |-> IF reduceq[r] # <<>> THEN Tail(reduceq[r])
                                   ELSE reduceq[r]]
    /\ pc' = [pc EXCEPT ![0] = IF pc[0] = "reduce1_wait" THEN "kick1" ELSE "kick2"]
    /\ UNCHANGED <<N, size, t_end, dt, t, positions, masses, velocities,
                   local_accelerations, bcastq, calls, x0, v0>>

\* line 98, velocities += 0.5 * dt * all_accelerations
HalfKick(v, a) ==
    [g \in DOMAIN v |->
        Add2(v[g], <<HalfTimes(dt, a[g][1]), HalfTimes(dt, a[g][2])>>)]

\* line 101, positions += dt * velocities
Drift(x, v) ==
    [g \in DOMAIN x |-> Add2(x[g], <<Times(dt, v[g][1]), Times(dt, v[g][2])>>)]

\* a half-kick and drift without the rank test: every rank kicks its velocities
HalfKickDriftAllRanks ==
    /\ pc[0] = "kick1"
    /\ velocities' = [r \in Ranks |->
                         IF DOMAIN velocities[r] = DOMAIN all_accelerations
                         THEN HalfKick(velocities[r], all_accelerations)
                         ELSE velocities[r]]
    /\ positions' = [positions EXCEPT ![0] =
                         Drift(positions[0], HalfKick(velocities[0], all_accelerations))]
    /\ pc' = [pc EXCEPT ![0] = "Bcast"]
    /\ UNCHANGED <<N, size, t_end, dt, t, masses, local_accelerations,
                   all_accelerations, bcastq, reduceq, calls, contributors,
                   x0, v0>>

\* lines 96-101 at the root
HalfKickDrift ==
    /\ pc[0] = "kick1"
    /\ LET v1 == HalfKick(velocities[0], all_accelerations)
       IN  /\ velocities' = [velocities EXCEPT ![0] = v1]
           /\ positions' = [positions EXCEPT ![0] = Drift(positions[0], v1)]
    /\ pc' = [pc EXCEPT ![0] = "Bcast"]
    /\ UNCHANGED <<N, size, t_end, dt, t, masses, local_accelerations,
                   all_accelerations, bcastq, reduceq, calls, contributors,
                   x0, v0>>

\* line 104, comm.Bcast(positions, root=0), is inside `if comm.rank == 0`: only
\* the root calls it and the other ranks call Barrier next.  With one rank the
\* call returns.  With more ranks the call is unmatched; the root's sends are
\* either buffered by the library, and the call returns with no rank having
\* received the positions, or they wait for a matching receive that never
\* comes, and the root stays in the call.
BcastPositions ==
    /\ pc[0] = "Bcast"
    /\ Invoke(0, "Bcast")
    /\ \/ pc' = [pc EXCEPT ![0] = "barrier"]
       \/ /\ size > 1
          /\ pc' = [pc EXCEPT ![0] = "Bcast_blocked"]
    /\ UNCHANGED <<N, size, t_end, dt, t, positions, masses, velocities,
                   local_accelerations, all_accelerations, bcastq, reduceq,
                   contributors, x0, v0>>

\* line 106, comm.Barrier(): the rank enters the barrier
BarrierEnter(r) ==
    /\ pc[r] = "barrier"
    /\ Invoke(r, "Barrier")
    /\ pc' = [pc EXCEPT ![r] = "barrier_wait"]
    /\ UNCHANGED <<N, size, t_end, dt, t, positions, masses, velocities,
                   local_accelerations, all_accelerations, bcastq, reduceq,
                   contributors, x0, v0>>

\* line 106 returns
BarrierLeave(r) ==
    /\ pc[r] = "barrier_wait"
    /\ BarrierOpen(calls, r)
    /\ pc' = [pc EXCEPT ![r] = "calc2"]
    /\ UNCHANGED <<N, size, t_end, dt, t, positions, masses, velocities,
                   local_accelerations, all_accelerations, bcastq, reduceq, calls,
                   contributors, x0, v0>>

\* a second force evaluation that writes its result into positions
EvaluateAccel2InPlace(r) ==
    /\ pc[r] = "calc2"
    /\ local_accelerations' = [local_accelerations EXCEPT ![r] =
           calculate_accelerations(positions[r], masses[r], r, size)]
    /\ positions' = [positions EXCEPT ![r] =
           calculate_accelerations(positions[r], masses[r], r, size)]
    /\ pc' = [pc EXCEPT ![r] = "reduce2"]
    /\ UNCHANGED <<N, size, t_end, dt, t, masses, velocities,
                   all_accelerations, bcastq, reduceq, calls, contributors,
                   x0, v0>>

\* line 109, the second force evaluation
EvaluateAccel2(r) ==
    /\ pc[r] = "calc2"
    /\ local_accelerations' = [local_accelerations EXCEPT ![r] =
           calculate_accelerations(positions[r], masses[r], r, size)]
    /\ pc' = [pc EXCEPT ![r] = "reduce2"]
    /\ UNCHANGED <<N, size, t_end, dt, t, positions, masses, velocities,
                   all_accelerations, bcastq, reduceq, calls, contributors,
                   x0, v0>>

\* line 122, t += dt
AdvanceTime(tr) == FloatAdd(tr, dt)

\* lines 117-131 at the root: the second half-kick, t += dt and the plot, up
\* to the call of plt.pause
HalfKick2 ==
    /\ pc[0] = "kick2"
    /\ velocities' = [velocities EXCEPT ![0] = HalfKick(@, all_accelerations)]
    /\ t' = [t EXCEPT ![0] = AdvanceTime(@)]
    /\ pc' = [pc EXCEPT ![0] = "pause"]
    /\ UNCHANGED <<N, size, t_end, dt, positions, masses, local_accelerations,
                   all_accelerations, bcastq, reduceq, calls, contributors,
                   x0, v0>>

\* lines 131-133 at the root: plt.pause returns
PauseReturn ==
    /\ pc[0] = "pause"
    /\ pc' = [pc EXCEPT ![0] = "loop"]
    /\ UNCHANGED <<N, size, t_end, dt, t, positions, masses, velocities,
                   local_accelerations, all_accelerations, bcastq, reduceq,
                   calls, contributors, x0, v0>>

\* lines 135-144: the handler of the figure's close_event (line 60).  Events
\* are dispatched inside plt.pause, which only the root calls; the handler
\* ends the process with exit().
on_close ==
    /\ pc[0] = "pause"
    /\ pc' = [pc EXCEPT ![0] = "exited"]
    /\ UNCHANGED <<N, size, t_end, dt, t, positions, masses, velocities,
                   local_accelerations, all_accelerations, bcastq, reduceq,
                   calls, contributors, x0, v0>>

Next ==
    \/ \E r \in Ranks : BcastPositionsInit(r)
    \/ \E r \in Ranks : BcastPositionsReturn(r)
    \/ \E r \in Ranks : BcastMassesInit(r)
    \/ \E r \in Ranks : BcastMassesReturn(r)
    \/ \E r \in Ranks : BcastVelocitiesInit(r)
    \/ \E r \in Ranks : BcastVelocitiesReturn(r)
    \/ \E r \in Ranks : EvaluateAccel1(r)
    \/ \E r \in Ranks : ReduceSend(r)
    \/ ReduceCall
    \/ ReduceRoot
    \/ HalfKickDrift
    \/ BcastPositions
    \/ \E r \in Ranks : BarrierEnter(r)
    \/ \E r \in Ranks : BarrierLeave(r)
    \/ \E r \in Ranks : EvaluateAccel2(r)
    \/ HalfKick2
    \/ PauseReturn
    \/ on_close

Spec == Init /\ [][Next]_vars

\* no rank has begun more than MaxSteps timesteps
Within == \A r \in Ranks : NBarrier(r) < MaxSteps

\* the program started with an invalid configuration, followed for MaxSteps
\* timesteps of each rank
SpecInvalid == InitInvalid /\ [][Within /\ Next]_vars

\* the program with its own time parameters
SpecProgram == InitProgram /\ [][Next]_vars

\* ================================================================ claims
Min(a, b) == IF a <= b THEN a ELSE b

\* the N-body acceleration of body g: the sum over every other body j
\* (j # g as global indices) at a different position
RECURSIVE FullSum(_, _, _, _)
FullSum(pos, mas, g, k) ==
    IF k = 0 THEN Zero2
    ELSE LET j == k - 1
             rest == FullSum(pos, mas, g, j)
         IN  IF j # g /\ pos[j] # pos[g]
             THEN Add2(rest, Contribution(pos[g], pos[j], mas[j]))
             ELSE rest

FullAcc(pos, mas) == [g \in DOMAIN pos |-> FullSum(pos, mas, g, Shape0(pos))]

\* the reduced acceleration array of a run with sz ranks
RECURSIVE ReducedUpTo(_, _, _, _)
ReducedUpTo(pos, mas, sz, r) ==
    IF r = 0 THEN calculate_accelerations(pos, mas, 0, sz)
    ELSE SumArr(ReducedUpTo(pos, mas, sz, r - 1),
                calculate_accelerations(pos, mas, r, sz))

Reduced(pos, mas, sz) == ReducedUpTo(pos, mas, sz, sz - 1)

\* C1: every rank that has passed the Barrier of a step holds the
\* coordinator's post-drift positions and the coordinator's masses.
C1_ReplicasEqualAfterBarrier ==
    \A r \in Ranks :
        pc[r] = "calc2" =>
            /\ positions[r] = positions[0]
            /\ masses[r] = masses[0]

\* C2: all ranks invoke the same sequence of collectives: the k-th collective
\* call of any two ranks is the same collective.
C2_SameCollectiveSequence ==
    \A r, u \in Ranks :
        \A k \in 1 .. Min(Len(calls[r]), Len(calls[u])) :
            calls[r][k] = calls[u][k]

\* C3: once the coordinator has left the loop (its time exceeds t_end), no
\* rank has started another timestep or sits in a collective of the loop:
\* every rank is at the loop test or has left the loop.
C3_NoRankLeftInLoop ==
    pc[0] = "done" => \A r \in Ranks : pc[r] \in {"loop", "done"}

\* C4: the entry of calculate_accelerations at an owned global index g is the
\* sum of the contributions of exactly the bodies j # g at another position.
C4_OwnedEntryIsFullSum ==
    \A r \in Ranks :
        pc[r] \in {"reduce1", "reduce2"} =>
            \A g \in 0 .. (N - 1) :
                g % size = r =>
                    local_accelerations[r][g] =
                        FullSum(positions[r], masses[r], g, N)

\* C5: the reduced acceleration array the coordinator obtains for the initial
\* system in a run with 1, 2 or 4 ranks is the array a run with 1 rank obtains.
C5_ReductionIndependentOfRanks ==
    (pc[0] = "kick1" /\ t[0] = Float(0) /\ size \in {1, 2, 4}) =>
        all_accelerations = Reduced(positions[0], masses[0], 1)

\* C6: a full timestep of the coordinator from (x0, v0) ends with
\* x' = x0 + dt*(v0 + 0.5*dt*a(x0)) and
\* v' = v0 + 0.5*dt*a(x0) + 0.5*dt*a(x'), a the full N-body acceleration.
C6_LeapfrogStep ==
    (pc[0] = "loop" /\ t[0] # Float(0)) =>
        LET a1 == FullAcc(x0, masses[0])
            v1 == HalfKick(v0, a1)
            x1 == Drift(x0, v1)
        IN  /\ positions[0] = x1
            /\ velocities[0] = HalfKick(v1, FullAcc(x1, masses[0]))

\* C7: a rank is in the second force evaluation of a step only after the
\* coordinator has drifted and made its Bcast call of that step and every rank
\* has entered that step's Barrier.
C7_Accel2AfterDriftBcastBarrier ==
    \A r \in Ranks :
        pc[r] \in {"calc2", "reduce2", "reduce2_wait"} =>
            /\ pc[0] \in {"barrier_wait", "calc2", "reduce2", "reduce2_wait"}
            /\ positions[0] = Drift(x0, velocities[0])
            /\ NBcast(0) = NBarrier(r)
            /\ \A u \in Ranks : NBarrier(u) >= NBarrier(r)

C7_Witness ==
    /\ size >= 2
    /\ pc[1] = "calc2"
    /\ positions[0] # x0
    /\ t[0] # Float(0)

\* C8 as claimed: no rank has begun the first force evaluation of step k+1
\* before every rank has made its call of the second Reduce of step k.
C8_NoRankStartsBeforeReduction ==
    \A r \in Ranks :
        (pc[r] = "reduce1" /\ NReduce(r) >= 2) =>
            \A u \in Ranks : NReduce(u) >= NReduce(r)

\* C8 as amended: the coordinator has not begun the first force evaluation of
\* step k+1 before every rank has contributed to the second Reduce of step k.
C8_CoordinatorStartsAfterReduction ==
    (pc[0] = "reduce1" /\ NReduce(0) >= 2) =>
        \A u \in Ranks : NReduce(u) >= NReduce(0)

C8_Witness ==
    /\ size >= 3
    /\ pc[0] = "reduce1"
    /\ NReduce(0) >= 2

\* C9: the coordinator applies a half-kick and advances t only after a Reduce
\* that summed the buffers of all ranks; for every step counted in t, every
\* rank has contributed to both reductions of that step.
C9_KickAndTimeAfterFullReduce ==
    /\ pc[0] \in {"kick1", "kick2"} => contributors = Ranks
    /\ \A r \in Ranks : NReduce(r) >= 2 * (IntOf(t[0]) \div DT)
    /\ pc[0] = "kick2" =>
           \A r \in Ranks : NReduce(r) >= 2 * (IntOf(t[0]) \div DT) + 2

C9_Witness ==
    /\ size >= 3
    /\ N >= 1
    /\ pc[0] = "kick2"
    /\ t[0] # Float(0)

\* the rows rank r reads (the slice rank::size) and the rows it writes back
ReadSet(r) == {SliceIndex(r, size, i) : i \in 0 .. (SliceLen(N, r, size) - 1)}
WriteSet(r) == {WriteBackIndex(r, size, i) : i \in 0 .. (SliceLen(N, r, size) - 1)}

\* C10: the slices rank::size and the write-back rows rank + i*size partition
\* 0..N-1: every row is read and written by exactly one rank, none outside.
C10_StripesPartition ==
    /\ \A g \in 0 .. (N - 1) :
           /\ Cardinality({r \in Ranks : g \in ReadSet(r)}) = 1
           /\ Cardinality({r \in Ranks : g \in WriteSet(r)}) = 1
    /\ \A r \in Ranks : ReadSet(r) = WriteSet(r) /\ WriteSet(r) \subseteq 0 .. (N - 1)

C10_Witness ==
    /\ size >= 2
    /\ N > size
    /\ N % size # 0
    /\ \A r \in Ranks : pc[r] = "reduce1"

\* C11: the array a rank gets from calculate_accelerations has the N rows
\* 0..N-1 and is zero in every row the rank does not own.
C11_NonOwnedRowsZero ==
    \A r \in Ranks :
        pc[r] \in {"reduce1", "reduce2"} =>
            /\ DOMAIN local_accelerations[r] = 0 .. (N - 1)
            /\ \A k \in 0 .. (N - 1) :
                   k % size # r => local_accelerations[r][k] = Zero2

C11_Witness ==
    /\ size >= 2
    /\ N > size
    /\ pc[1] = "reduce1"
    /\ \E g \in 0 .. (N - 1) : local_accelerations[1][g] # Zero2

\* C12: a rank with an empty stripe (rank >= N) gets a size-N all-zero array
\* and makes both Reduce calls of each of its timesteps (one Reduce before
\* and one after each Barrier), and every Reduce the coordinator completes
\* has summed the buffers of all P ranks.
C12_EmptyStripeTakesPart ==
    /\ \A r \in Ranks :
           r >= N =>
               /\ pc[r] \in {"reduce1", "reduce2"} =>
                      local_accelerations[r] = [g \in 0 .. (N - 1) |-> Zero2]
               /\ pc[r] \in {"loop", "reduce1", "done", "reduce2_wait", "kick2",
                            "pause", "exited"} =>
                      NReduce(r) = 2 * NBarrier(r)
               /\ pc[r] \in {"reduce1_wait", "kick1", "Bcast", "Bcast_blocked",
                            "barrier"} =>
                      NReduce(r) = 2 * NBarrier(r) + 1
               /\ pc[r] \in {"barrier_wait", "calc2", "reduce2"} =>
                      NReduce(r) = 2 * NBarrier(r) - 1
    /\ (size > N /\ pc[0] \in {"kick1", "kick2"}) => contributors = Ranks

C12_Witness ==
    /\ N >= 1
    /\ size > N
    /\ pc[0] = "kick2"
    /\ t[0] # Float(0)
    /\ pc[size - 1] = "loop"

\* the system has two bodies at one position and a third body elsewhere
Degenerate(pos) ==
    \E a, b, c \in DOMAIN pos :
        a # b /\ pos[a] = pos[b] /\ pos[c] # pos[a]

\* C13: in a system with two coincident bodies and a third elsewhere, the
\* entry of every owned body is the sum over the bodies at other positions:
\* the coincident partner adds nothing, every other body adds its term.
C13_DegeneratePair ==
    \A r \in Ranks :
        (pc[r] \in {"reduce1", "reduce2"} /\ Degenerate(positions[r])) =>
            \A g \in 0 .. (N - 1) :
                g % size = r =>
                    local_accelerations[r][g] =
                        FullSum(positions[r], masses[r], g, N)

\* C15 as claimed: no rank other than the coordinator ever holds velocities.
C15_VelocitiesOnlyAtCoordinator ==
    \A r \in Ranks \ {0} : velocities[r] = None

\* C15 as amended: the velocities of a rank other than the coordinator change
\* only in its start-up broadcast (line 79); no timestep changes them.
C15_WorkerVelocitiesOnlyFromStartUp ==
    [][\A r \in Ranks \ {0} :
          velocities'[r] # velocities[r] => pc[r] = "bcast_velocities_wait"]_vars

C15_Witness ==
    /\ size >= 2
    /\ N >= 1
    /\ pc[1] = "calc2"
    /\ velocities[1] # None
    /\ velocities[0] # velocities[1]

\* what body j adds to the entry of body g in a run with `size` ranks: the
\* term of row g \div size at rank g % size
IncludedTerm(pos, mas, g, j) ==
    Term(pos, mas, LocalPositions(pos, g % size, size), g \div size, j)

\* C16: for the initial system and any two distinct bodies i and j, what j
\* adds to the acceleration of i and what i adds to that of j satisfy
\* mass[i]*a(i<-j) = -mass[j]*a(j<-i).
C16_NewtonThirdLaw ==
    (pc[0] = "reduce1" /\ t[0] = Float(0)) =>
        \A i, j \in 0 .. (N - 1) :
            i # j =>
                Scale2(masses[0][i], IncludedTerm(positions[0], masses[0], i, j))
                    = Scale2(-masses[0][j], IncludedTerm(positions[0], masses[0], j, i))

\* C17: a rank that has finished start-up and has not yet made a Reduce call
\* holds the coordinator's positions and masses.
C17_StartUpReplicasEqual ==
    \A r \in Ranks :
        (pc[r] \in {"loop", "reduce1"} /\ NReduce(r) = 0) =>
            /\ positions[r] = positions[0]
            /\ masses[r] = masses[0]

C17_Witness ==
    /\ size >= 3
    /\ N >= 2
    /\ \A r \in Ranks : pc[r] = "loop" /\ NReduce(r) = 0
    /\ positions[0][0] # positions[0][1]

\* C18: a rank's masses change only in its start-up broadcast, and a rank's
\* positions change only in its start-up broadcast or, at the coordinator, in
\* the Drift: no force evaluation changes either.
C18_InputsUnchanged ==
    [][\A r \in Ranks :
          /\ masses'[r] # masses[r] => pc[r] = "bcast_masses_wait"
          /\ positions'[r] # positions[r] =>
                 \/ pc[r] = "bcast_positions_wait"
                 \/ r = 0 /\ pc[0] = "kick1"]_vars

C18_Witness ==
    /\ size >= 2
    /\ N >= 2
    /\ pc[1] = "reduce2"
    /\ pc[0] = "reduce2"
    /\ positions[0] # x0
    /\ local_accelerations[1] # [g \in 0 .. (N - 1) |-> Zero2]

\* t_end / dt for the program's parameters, 1 / (1.0 / 60)
ProgramK == 60

\* the K of t_end = K * dt
K == IF dt = ProgramDT THEN ProgramK ELSE IntOf(t_end) \div IntOf(dt)

\* C19: with t_end = K*dt the coordinator is inside a timestep only while
\* t <= t_end, a timestep is still executed when t has come to t_end, and the
\* coordinator leaves the loop after exactly K+1 timesteps.
C19_LoopCount ==
    /\ pc[0] \in {"reduce1", "reduce1_wait", "kick1", "Bcast", "Bcast_blocked",
                  "barrier", "barrier_wait", "calc2", "reduce2", "reduce2_wait",
                  "kick2"} =>
           FloatLeq(t[0], t_end)
    /\ pc[0] = "done" =>
           /\ NBarrier(0) = K + 1
           /\ NReduce(0) = 2 * (K + 1)

\* C14: with a negative N or dt <= 0 no rank gets past the loop test: no
\* timestep, force evaluation or collective of the loop is executed.
C14_InvalidConfigFailsFast ==
    (N < 0 \/ FloatLeq(dt, Float(0))) =>
        \A r \in Ranks :
            pc[r] \in {"raised", "bcast_positions", "bcast_positions_wait",
                       "bcast_masses", "bcast_masses_wait", "bcast_velocities",
                       "bcast_velocities_wait", "loop"}

====
